---- MODULE Spec2Model ----
(***************************************************************************)
(* covviz (src/covviz/covviz.py): the report pipeline `cli`, the ROC trace *)
(* builder `parse_roc` and the payload packer `compress_data`.             *)
(*                                                                         *)
(* Python strings whose characters matter (csv fields, dictionary keys,    *)
(* JSON text) are sequences of one-character strings, so that str.strip    *)
(* and str.replace are computed character by character.                    *)
(***************************************************************************)
EXTENDS Integers, Sequences, FiniteSets, TLC

VARIABLES
    pc,          \* cli: the statement about to run
    args,        \* cli: the namespace returned by parse_args
    called,      \* cli: the pipeline stages invoked so far, in order
    failedAt,    \* cli: the stage that raised, or "none"
    outfile,     \* cli: the file at args.output: "untouched", "truncated", "written"
    bed,         \* cli: the coverage table read by parse_bed
    traces,      \* cli: the trace collection threaded through the stages
    samples,     \* cli: the sample list returned by parse_bed
    roc_path,    \* parse_roc: the rows of the coverage-distribution file
    roc_traces,  \* parse_roc: the trace collection passed in
    roc_samples, \* parse_roc: the sample list passed in
    roc_ret,     \* parse_roc: what the call raised and the collection it left
    data,        \* compress_data: the trace collection passed in
    packed,      \* compress_data: the text it compressed and the value it returned
    decoded      \* the report's side: the payload decompressed and parsed

vars == <<pc, args, called, failedAt, outfile, bed, traces, samples,
          roc_path, roc_traces, roc_samples, roc_ret, data, packed, decoded>>

cliVars == <<pc, args, called, failedAt, outfile, bed, traces, samples>>
rocVars == <<roc_path, roc_traces, roc_samples, roc_ret>>
packVars == <<data, packed, decoded>>

----------------------------------------------------------------------------
(* Generic helpers *)

Range(s) == {s[i] : i \in DOMAIN s}

SeqsUpTo(S, n) == UNION {[1..k -> S] : k \in 0..n}

\* Python None / JSON null
None == [t |-> "null"]

----------------------------------------------------------------------------
(* String literals of the source, as character sequences *)

K_chrom == <<"#", "c", "h", "r", "o", "m">>
K_cov == <<"c", "o", "v">>
K_chromosomes == <<"c", "h", "r", "o", "m", "o", "s", "o", "m", "e", "s">>
K_roc == <<"r", "o", "c">>
K_x == <<"x">>

\* the sample and chromosome names of the inputs
S1 == <<"s", "1">>
S2 == <<"s", "2">>
S3 == <<"s", "3">>
Chr1 == <<"1">>
Chr2 == <<"2">>

StripChars == {"c", "h", "r"}

\* str.strip(chars): drop leading and trailing characters that are in chars
RECURSIVE LStrip(_, _)
LStrip(s, chars) ==
    IF s # <<>> /\ Head(s) \in chars THEN LStrip(Tail(s), chars) ELSE s

RECURSIVE RStrip(_, _)
RStrip(s, chars) ==
    IF s # <<>> /\ s[Len(s)] \in chars
    THEN RStrip(SubSeq(s, 1, Len(s) - 1), chars)
    ELSE s

Strip(s, chars) == RStrip(LStrip(s, chars), chars)

----------------------------------------------------------------------------
(* parse_roc *)

\* csv.DictReader: a row as a dictionary keyed by the first line's fields; a
\* repeated field name keeps its last column, a short row is padded with None
DictRow(fieldnames, row) ==
    [k \in Range(fieldnames) |->
        LET i == CHOOSE j \in DOMAIN fieldnames :
                     /\ fieldnames[j] = k
                     /\ \A m \in DOMAIN fieldnames : fieldnames[m] = k => m <= j
        IN IF i <= Len(row) THEN row[i] ELSE None]

\* data = defaultdict(lambda: defaultdict(list)): a missing entry reads as an
\* empty list, so the accumulator is total over the keys that are ever read
EmptyRocData(keys, sampleList) ==
    [c \in keys |-> [k \in {K_x} \cup Range(sampleList) |-> <<>>]]

\* for sample in samples: data[chr][sample].append(row[sample])
RECURSIVE AppendSamples(_, _, _)
AppendSamples(entry, row, sampleList) ==
    IF sampleList = <<>> THEN [raised |-> "none", entry |-> entry]
    ELSE LET s == Head(sampleList) IN
         IF s \notin DOMAIN row THEN [raised |-> "KeyError", entry |-> entry]
         ELSE AppendSamples([entry EXCEPT ![s] = Append(@, row[s])],
                            row, Tail(sampleList))

\* a variant that starts the accumulation again at every repeated header
ReadRowRestart(acc, row, keys, sampleList) ==
    IF K_chrom \notin DOMAIN row THEN [raised |-> "KeyError", acc |-> acc]
    ELSE IF row[K_chrom] = K_chrom
    THEN [raised |-> "none", acc |-> EmptyRocData(DOMAIN acc, sampleList)]
    ELSE LET chr == Strip(row[K_chrom], StripChars) IN
         IF chr \notin keys THEN [raised |-> "none", acc |-> acc]
         ELSE IF K_cov \notin DOMAIN row THEN [raised |-> "KeyError", acc |-> acc]
         ELSE LET withX == [acc[chr] EXCEPT ![K_x] = Append(@, row[K_cov])]
                  r == AppendSamples(withX, row, sampleList)
              IN [raised |-> r.raised, acc |-> [acc EXCEPT ![chr] = r.entry]]

\* the body of `for row in reader`; keys is traces.keys() at that point
ReadRow(acc, row, keys, sampleList) ==
    IF K_chrom \notin DOMAIN row THEN [raised |-> "KeyError", acc |-> acc]
    ELSE IF row[K_chrom] = K_chrom THEN [raised |-> "none", acc |-> acc]
    ELSE LET chr == Strip(row[K_chrom], StripChars) IN
         IF chr \notin keys THEN [raised |-> "none", acc |-> acc]
         ELSE IF K_cov \notin DOMAIN row THEN [raised |-> "KeyError", acc |-> acc]
         ELSE LET withX == [acc[chr] EXCEPT ![K_x] = Append(@, row[K_cov])]
                  r == AppendSamples(withX, row, sampleList)
              IN [raised |-> r.raised, acc |-> [acc EXCEPT ![chr] = r.entry]]

\* the loop over the reader: the first line of the file gives the field names
RECURSIVE ReadRows(_, _, _, _, _)
ReadRows(acc, fieldnames, rows, keys, sampleList) ==
    IF rows = <<>> THEN [raised |-> "none", acc |-> acc]
    ELSE LET r == ReadRow(acc, DictRow(fieldnames, Head(rows)), keys, sampleList) IN
         IF r.raised # "none" THEN r
         ELSE ReadRows(r.acc, fieldnames, Tail(rows), keys, sampleList)

\* list[1:]: everything after the first element; empty for an empty list
SliceFrom1(l) == IF l = <<>> THEN <<>> ELSE Tail(l)

\* dict(x=..., y=..., hoverinfo=..., mode=..., text=..., marker=...)
RocTrace(entry, sample) ==
    [x |-> entry[K_x],
     y |-> SliceFrom1(entry[sample]),
     hoverinfo |-> "text",
     mode |-> "lines",
     text |-> sample,
     marker |-> [color |-> "rgba(108,117,125,0.2)"]]

\* a variant that builds traces only for the chromosomes the file has rows for
BuildRocSeenOnly(acc, chroms, sampleList) ==
    [c \in {k \in chroms : acc[k][K_x] # <<>>} |->
        [i \in 1..Len(sampleList) |-> RocTrace(acc[c], sampleList[i])]]

\* for chr in chroms: traces["roc"][chr] = [trace of each sample]
BuildRoc(acc, chroms, sampleList) ==
    [c \in chroms |->
        [i \in 1..Len(sampleList) |-> RocTrace(acc[c], sampleList[i])]]

\* a variant that stores each chromosome's ROC traces under the chromosome's key
WithRocInPlace(tr, roc) ==
    [k \in DOMAIN tr \cup {K_roc} |->
        IF k \in DOMAIN roc THEN roc[k]
        ELSE IF k = K_roc THEN <<>> ELSE tr[k]]

\* traces["roc"] = roc: the other keys keep their values
WithRoc(tr, roc) ==
    [k \in DOMAIN tr \cup {K_roc} |-> IF k = K_roc THEN roc ELSE tr[k]]

\* parse_roc(path, traces, samples); `path` stands for the rows gzopen yields.
\* A failure leaves the caller's dictionary with the empty "roc" entry already set.
parse_roc(path, tr, sampleList) ==
    IF K_chromosomes \notin DOMAIN tr
    THEN [raised |-> "ValueError", traces |-> tr]
    ELSE LET chroms == DOMAIN tr \ {K_chromosomes}
             tr1 == WithRoc(tr, <<>>)
             keys == DOMAIN tr1
             r == IF path = <<>>
                  THEN [raised |-> "none", acc |-> EmptyRocData(keys, sampleList)]
                  ELSE ReadRows(EmptyRocData(keys, sampleList), Head(path),
                                Tail(path), keys, sampleList)
         IN IF r.raised # "none"
            THEN [raised |-> r.raised, traces |-> tr1]
            ELSE [raised |-> "none",
                  traces |-> WithRoc(tr1, BuildRoc(r.acc, chroms, sampleList))]

----------------------------------------------------------------------------
(* compress_data *)

\* Python values that json.dumps is given, tagged by type
Num(n) == [t |-> "int", n |-> n]
Float(f) == [t |-> "float", f |-> f]      \* f is "nan", "inf" or "-inf"
Str(chars) == [t |-> "str", s |-> chars]
List(items) == [t |-> "list", items |-> items]
Dict(pairs) == [t |-> "dict", pairs |-> pairs]   \* <<key, value>>, insertion order

Digits == <<"0", "1", "2", "3", "4", "5", "6", "7", "8", "9">>

RECURSIVE NatToChars(_)
NatToChars(n) ==
    IF n < 10 THEN <<Digits[n + 1]>>
    ELSE NatToChars(n \div 10) \o <<Digits[(n % 10) + 1]>>

IntToChars(n) == IF n < 0 THEN <<"-">> \o NatToChars(-n) ELSE NatToChars(n)

T_NaN == <<"N", "a", "N">>
T_null == <<"n", "u", "l", "l">>
T_Infinity == <<"I", "n", "f", "i", "n", "i", "t", "y">>
Quote == "\""

\* json.dumps(float): allow_nan is on by default, so the three non-finite
\* values are written as the bare words NaN, Infinity and -Infinity
FloatToChars(f) ==
    CASE f = "nan" -> T_NaN
      [] f = "inf" -> T_Infinity
      [] f = "-inf" -> <<"-">> \o T_Infinity

\* json.dumps with its default separators ", " and ": "; the characters of the
\* strings modelled here need no escape and are ASCII, so the
\* encode("utf-8", "ignore").decode("utf-8") that follows changes nothing
RECURSIVE JsonDumps(_)
RECURSIVE DumpItems(_)
RECURSIVE DumpPairs(_)
JsonDumps(v) ==
    CASE v.t = "null" -> T_null
      [] v.t = "int" -> IntToChars(v.n)
      [] v.t = "float" -> FloatToChars(v.f)
      [] v.t = "str" -> <<Quote>> \o v.s \o <<Quote>>
      [] v.t = "list" -> <<"[">> \o DumpItems(v.items) \o <<"]">>
      [] v.t = "dict" -> <<"{">> \o DumpPairs(v.pairs) \o <<"}">>
DumpItems(items) ==
    IF items = <<>> THEN <<>>
    ELSE JsonDumps(Head(items)) \o
         (IF Len(items) > 1 THEN <<",", " ">> \o DumpItems(Tail(items)) ELSE <<>>)
DumpPairs(pairs) ==
    IF pairs = <<>> THEN <<>>
    ELSE <<Quote>> \o Head(pairs)[1] \o <<Quote, ":", " ">> \o
         JsonDumps(Head(pairs)[2]) \o
         (IF Len(pairs) > 1 THEN <<",", " ">> \o DumpPairs(Tail(pairs)) ELSE <<>>)

StartsWith(s, prefix) ==
    Len(s) >= Len(prefix) /\ SubSeq(s, 1, Len(prefix)) = prefix

Drop(s, n) == SubSeq(s, n + 1, Len(s))

\* str.replace(old, new): every non-overlapping occurrence, left to right
RECURSIVE Replace(_, _, _)
Replace(s, old, new) ==
    IF s = <<>> THEN <<>>
    ELSE IF StartsWith(s, old) THEN new \o Replace(Drop(s, Len(old)), old, new)
    ELSE <<Head(s)>> \o Replace(Tail(s), old, new)

\* LZString().compressToBase64 and the client's decompressFromBase64: the
\* library's lossless codec, kept as an opaque envelope around the text
LZCompressToBase64(text) == [codec |-> "lz-string/base64", of |-> text]
LZDecompressFromBase64(b64) == b64.of

\* compress_data(data): json_str as line 159 leaves it, and the returned value
compress_data(d) ==
    LET json_str == Replace(JsonDumps(d), T_NaN, T_null)
    IN [status |-> "returned", json_str |-> json_str,
        value |-> LZCompressToBase64(json_str)]

----------------------------------------------------------------------------
(* The report's side: JSON.parse of the decompressed payload *)

IsDigit(c) == \E i \in DOMAIN Digits : Digits[i] = c
DigitValue(c) == (CHOOSE i \in DOMAIN Digits : Digits[i] = c) - 1

RECURSIVE SkipSpaces(_)
SkipSpaces(s) == IF s # <<>> /\ Head(s) = " " THEN SkipSpaces(Tail(s)) ELSE s

\* the characters up to the closing quote, and what follows it
RECURSIVE ScanString(_, _)
ScanString(s, got) ==
    IF s = <<>> THEN [ok |-> FALSE, v |-> None, rest |-> <<>>]
    ELSE IF Head(s) = Quote THEN [ok |-> TRUE, v |-> Str(got), rest |-> Tail(s)]
    ELSE ScanString(Tail(s), Append(got, Head(s)))

RECURSIVE ScanDigits(_, _)
ScanDigits(s, n) ==
    IF s # <<>> /\ IsDigit(Head(s))
    THEN ScanDigits(Tail(s), 10 * n + DigitValue(Head(s)))
    ELSE [ok |-> TRUE, v |-> Num(n), rest |-> s]

ParseFail == [ok |-> FALSE, v |-> None, rest |-> <<>>]

\* a JSON value at the head of s: NaN and Infinity are no JSON and fail
RECURSIVE ParseValue(_)
RECURSIVE ParseItems(_, _)
RECURSIVE ParsePairs(_, _)
ParseValue(s0) ==
    LET s == SkipSpaces(s0) IN
    IF s = <<>> THEN ParseFail
    ELSE IF Head(s) = Quote THEN ScanString(Tail(s), <<>>)
    ELSE IF StartsWith(s, T_null)
    THEN [ok |-> TRUE, v |-> None, rest |-> Drop(s, Len(T_null))]
    ELSE IF IsDigit(Head(s)) THEN ScanDigits(s, 0)
    ELSE IF Head(s) = "-" /\ Len(s) > 1 /\ IsDigit(s[2])
    THEN LET r == ScanDigits(Tail(s), 0)
         IN [ok |-> TRUE, v |-> Num(-r.v.n), rest |-> r.rest]
    ELSE IF Head(s) = "["
    THEN LET t == SkipSpaces(Tail(s)) IN
         IF t # <<>> /\ Head(t) = "]"
         THEN [ok |-> TRUE, v |-> List(<<>>), rest |-> Tail(t)]
         ELSE ParseItems(t, <<>>)
    ELSE IF Head(s) = "{"
    THEN LET t == SkipSpaces(Tail(s)) IN
         IF t # <<>> /\ Head(t) = "}"
         THEN [ok |-> TRUE, v |-> Dict(<<>>), rest |-> Tail(t)]
         ELSE ParsePairs(t, <<>>)
    ELSE ParseFail
ParseItems(s, got) ==
    LET r == ParseValue(s) IN
    IF ~r.ok THEN ParseFail
    ELSE LET t == SkipSpaces(r.rest) IN
         IF t = <<>> THEN ParseFail
         ELSE IF Head(t) = "]"
         THEN [ok |-> TRUE, v |-> List(Append(got, r.v)), rest |-> Tail(t)]
         ELSE IF Head(t) = "," THEN ParseItems(Tail(t), Append(got, r.v))
         ELSE ParseFail
ParsePairs(s0, got) ==
    LET s == SkipSpaces(s0) IN
    IF s = <<>> \/ Head(s) # Quote THEN ParseFail
    ELSE LET k == ScanString(Tail(s), <<>>)
             c == SkipSpaces(k.rest)
         IN IF ~k.ok \/ c = <<>> \/ Head(c) # ":" THEN ParseFail
            ELSE LET r == ParseValue(Tail(c)) IN
                 IF ~r.ok THEN ParseFail
                 ELSE LET t == SkipSpaces(r.rest)
                          pairs == Append(got, <<k.v.s, r.v>>)
                      IN IF t = <<>> THEN ParseFail
                         ELSE IF Head(t) = "}"
                         THEN [ok |-> TRUE, v |-> Dict(pairs), rest |-> Tail(t)]
                         ELSE IF Head(t) = "," THEN ParsePairs(Tail(t), pairs)
                         ELSE ParseFail

\* JSON.parse(text): the value, when the whole text is one JSON value
JsonParse(text) ==
    LET r == ParseValue(text) IN
    IF r.ok /\ SkipSpaces(r.rest) = <<>>
    THEN [status |-> "parsed", v |-> r.v]
    ELSE [status |-> "SyntaxError", v |-> None]

----------------------------------------------------------------------------
(* Inputs of parse_roc *)

MaxRocRows == 3

\* the header line of the coverage-distribution file: #chrom, cov, samples
RocHeader == <<K_chrom, K_cov, S1, S2>>

\* data lines: chromosome "chr1" is established (as "1"), "chr3" is not;
\* chromosome "2" is established and has no line in any file
RocDataRows ==
    {<<c, v, a, <<"8">>>> :
        c \in {<<"c", "h", "r", "1">>, <<"c", "h", "r", "3">>},
        v \in {<<"0">>, <<"1">>},
        a \in {<<"7">>, <<"9">>}}

RocFiles(n) == {<<RocHeader>> \o body : body \in SeqsUpTo(RocDataRows \cup {RocHeader}, n)}

\* the sample lists parse_bed may have established
RocSampleLists == {<<S1>>, <<S1, S2>>, <<S2, S1>>, <<S1, S3>>}

\* a trace collection as parse_bed and parse_gff leave it
BedTrace(name) == [name |-> name, x |-> <<0, 1>>, y |-> <<1, 1>>]
IncomingTraces(chroms) ==
    [k \in Range(chroms) \cup {K_chromosomes} |->
        IF k = K_chromosomes THEN chroms
        ELSE <<BedTrace("background")>>]

\* the established chromosome sets: chromosomes 1 and 2, or chromosome 1 alone
IncomingCollections == {IncomingTraces(<<Chr1, Chr2>>), IncomingTraces(<<Chr1>>)}

----------------------------------------------------------------------------
(* The specification of parse_roc: any file, any established sample list *)

IdleCli ==
    /\ pc = "idle" /\ args = None /\ called = <<>> /\ failedAt = "none"
    /\ outfile = "untouched" /\ bed = None /\ traces = None /\ samples = <<>>

IdleRoc ==
    /\ roc_path = <<>> /\ roc_traces = None /\ roc_samples = <<>>
    /\ roc_ret = [raised |-> "idle", traces |-> None]

IdlePack ==
    /\ data = None
    /\ packed = [status |-> "idle", json_str |-> <<>>, value |-> None]
    /\ decoded = [status |-> "idle", v |-> None]

InitRoc ==
    /\ IdleCli /\ IdlePack
    /\ roc_path \in RocFiles(MaxRocRows)
    /\ roc_samples \in RocSampleLists
    /\ roc_traces \in IncomingCollections
    /\ roc_ret = [raised |-> "pending", traces |-> None]

CallParseRoc ==
    /\ roc_ret.raised = "pending"
    /\ roc_ret' = parse_roc(roc_path, roc_traces, roc_samples)
    /\ UNCHANGED <<roc_path, roc_traces, roc_samples>>
    /\ UNCHANGED cliVars /\ UNCHANGED packVars

NextRoc == CallParseRoc

SpecRoc == InitRoc /\ [][NextRoc]_vars

----------------------------------------------------------------------------
(* The specification of compress_data: any small trace collection *)

MaxPoints == 2

K_y == <<"y">>
K_text == <<"t", "e", "x", "t">>

\* coverage values: finite numbers and the three non-finite floats
PackNumbers == {Num(1), Num(12), Float("nan"), Float("inf"), Float("-inf")}

\* chromosome keys and sample names; one of each contains the letters NaN
PackKeys == {<<"1">>, <<"N", "a", "N">>}
PackNames == {<<"s", "1">>, <<"N", "a", "N", "1">>}

\* {chromosome: [{"y": [...], "text": sample}]}
PackCollections ==
    {Dict(<< <<k, List(<<Dict(<< <<K_y, List(ys)>>, <<K_text, Str(n)>> >>)>>)>> >>) :
        k \in PackKeys, ys \in SeqsUpTo(PackNumbers, MaxPoints), n \in PackNames}

PackPending == [status |-> "pending", json_str |-> <<>>, value |-> None]
DecodePending == [status |-> "pending", v |-> None]

InitPack ==
    /\ IdleCli /\ IdleRoc
    /\ data \in PackCollections
    /\ packed = PackPending
    /\ decoded = DecodePending

CallCompressData ==
    /\ packed.status = "pending"
    /\ packed' = compress_data(data)
    /\ UNCHANGED <<data, decoded>>
    /\ UNCHANGED cliVars /\ UNCHANGED rocVars

ClientDecode ==
    /\ packed.status = "returned"
    /\ decoded.status = "pending"
    /\ decoded' = JsonParse(LZDecompressFromBase64(packed.value))
    /\ UNCHANGED <<data, packed>>
    /\ UNCHANGED cliVars /\ UNCHANGED rocVars

NextPack == CallCompressData \/ ClientDecode

SpecPack == InitPack /\ [][NextPack]_vars

----------------------------------------------------------------------------
(* Claims about compress_data, checked under SpecPack *)

\* the text with its string literals (quotes included) taken out
RECURSIVE OutsideStrings(_, _)
OutsideStrings(s, inString) ==
    IF s = <<>> THEN <<>>
    ELSE IF Head(s) = Quote THEN OutsideStrings(Tail(s), ~inString)
    ELSE IF inString THEN OutsideStrings(Tail(s), inString)
    ELSE <<Head(s)>> \o OutsideStrings(Tail(s), inString)

Contains(s, word) == \E i \in 1..Len(s) : StartsWith(Drop(s, i - 1), word)

\* the collection with every not-a-number value replaced by null
RECURSIVE NanToNull(_)
NanToNull(v) ==
    CASE v.t = "float" -> IF v.f = "nan" THEN None ELSE v
      [] v.t = "list" -> List([i \in DOMAIN v.items |-> NanToNull(v.items[i])])
      [] v.t = "dict" ->
            Dict([i \in DOMAIN v.pairs |-> <<v.pairs[i][1], NanToNull(v.pairs[i][2])>>])
      [] OTHER -> v

\* C2 (as claimed): the text that is compressed holds no non-representable number:
\* outside its string literals there is no NaN, no Infinity and no -Infinity.
C2_NoNonRepresentableNumber ==
    packed.status = "returned" =>
        /\ ~Contains(OutsideStrings(packed.json_str, FALSE), T_NaN)
        /\ ~Contains(OutsideStrings(packed.json_str, FALSE), T_Infinity)

\* C3 (as claimed): decompressing and parsing compress_data(d) gives d with each
\* not-a-number value replaced by null and nothing else changed, keys and string
\* values included.
C3_RoundTrip ==
    decoded.status # "pending" =>
        /\ decoded.status = "parsed"
        /\ decoded.v = NanToNull(data)

----------------------------------------------------------------------------
(* parse_bed: the significance engine (spec.md 4.3; its source, covviz/bed.py,  *)
(* is imported by covviz.py and is not part of the sources at hand)            *)

\* a coverage table: the header's samples and, per chromosome, the bins in
\* ascending order; bin i spans [i - 1, i] and holds one value per sample
BinStart(i) == i - 1
BinEnd(i) == i

RECURSIVE SumSeq(_)
SumSeq(q) == IF q = <<>> THEN 0 ELSE Head(q) + SumSeq(Tail(q))

Max(a, b) == IF a >= b THEN a ELSE b
Min(a, b) == IF a <= b THEN a ELSE b

\* |z| >= z_threshold for sample j in a bin with values cov, where
\* z = (v - mean) / std and a zero std gives z = 0; squared and scaled by n^2
IsOutlier(cov, j, z_threshold) ==
    LET n == Len(cov)
        sum == SumSeq(cov)
        sq == SumSeq([i \in DOMAIN cov |-> cov[i] * cov[i]])
        n2var == n * sq - sum * sum
        dev == n * cov[j] - sum
    IN /\ n >= 2
       /\ n2var > 0
       /\ dev * dev >= z_threshold * z_threshold * n2var

\* step 3: scan the flags, closing the current run at a false flag or at the
\* end; a run is kept when its genomic span reaches distance_threshold
RECURSIVE ScanRuns(_, _, _, _, _)
ScanRuns(flags, i, runStart, distance_threshold, found) ==
    LET close(upTo) ==
            IF runStart # 0 /\ BinEnd(upTo) - BinStart(runStart) >= distance_threshold
            THEN Append(found, [start |-> BinStart(runStart), end |-> BinEnd(upTo)])
            ELSE found
    IN IF i > Len(flags) THEN close(Len(flags))
       ELSE IF flags[i]
       THEN ScanRuns(flags, i + 1, IF runStart = 0 THEN i ELSE runStart,
                     distance_threshold, found)
       ELSE ScanRuns(flags, i + 1, 0, distance_threshold, close(i - 1))

\* step 4: the region widened by slop on both sides, clamped to the chromosome
Flanked(region, slop, chromLen) ==
    [start |-> Max(0, region.start - slop), end |-> Min(chromLen, region.end + slop)]

InWindow(i, w) == BinEnd(i) >= w.start /\ BinStart(i) <= w.end

\* the trace of sample j over the bins numbered in idx
SigTrace(name, sample, bins, j, idx) ==
    [name |-> name, text |-> sample,
     x |-> [k \in DOMAIN idx |-> BinStart(idx[k])],
     y |-> [k \in DOMAIN idx |-> bins[idx[k]][j]]]

RECURSIVE Flatten(_)
Flatten(lists) == IF lists = <<>> THEN <<>> ELSE Head(lists) \o Flatten(Tail(lists))

\* the traces of one chromosome: one background trace per sample, then the
\* region traces; below min_samples nothing is scored (steps 1 and 5)
ChromTraces(bins, sampleList, z_threshold, distance_threshold, slop, min_samples) ==
    LET unfiltered == Len(sampleList) < min_samples
        all == [i \in DOMAIN bins |-> i]
        windows(j) ==
            IF unfiltered THEN <<>>
            ELSE LET flags == [i \in DOMAIN bins |-> IsOutlier(bins[i], j, z_threshold)]
                     regions == ScanRuns(flags, 1, 0, distance_threshold, <<>>)
                 IN [r \in DOMAIN regions |-> Flanked(regions[r], slop, BinEnd(Len(bins)))]
        background(j) ==
            SigTrace("background", sampleList[j], bins, j,
                     SelectSeq(all, LAMBDA i :
                         \A r \in DOMAIN windows(j) : ~InWindow(i, windows(j)[r])))
        regionTraces(j) ==
            [r \in DOMAIN windows(j) |->
                SigTrace("region", sampleList[j], bins, j,
                         SelectSeq(all, LAMBDA i : InWindow(i, windows(j)[r])))]
    IN [j \in DOMAIN sampleList |-> background(j)] \o
       Flatten([j \in DOMAIN sampleList |-> regionTraces(j)])

\* parse_bed(...): the trace collection keyed by chromosome, with the list of
\* chromosomes under "chromosomes", and the sample list
parse_bed(table, z_threshold, distance_threshold, slop, min_samples) ==
    LET chroms == SelectSeq(<<Chr1, Chr2>>, LAMBDA c : table.bins[c] # <<>>)
    IN [traces |->
            [k \in Range(chroms) \cup {K_chromosomes} |->
                IF k = K_chromosomes THEN chroms
                ELSE ChromTraces(table.bins[k], table.samples, z_threshold,
                                 distance_threshold, slop, min_samples)],
        samples |-> table.samples]

----------------------------------------------------------------------------
(* cli: the pipeline *)

MaxBins == 2

\* per bin, samples s1 and s2 are at the cohort level (1) or far above it (9)
CohortRows(n) == {[j \in 1..n |-> IF j = 1 THEN a ELSE IF j = 2 THEN b ELSE 1] :
                     a \in {1, 9}, b \in {1, 9}}

\* at most MaxBins bins in all, on chromosome 1, chromosome 2 or both
BedBins(n) ==
    {p \in SeqsUpTo(CohortRows(n), MaxBins) \X SeqsUpTo(CohortRows(n), MaxBins) :
        Len(p[1]) + Len(p[2]) <= MaxBins}

BedTables ==
    UNION {
        {[samples |-> sl, bins |-> [c \in {Chr1, Chr2} |-> IF c = Chr1 THEN p[1] ELSE p[2]]] :
            p \in BedBins(Len(sl))}
        : sl \in {<<S1, S2>>, <<S1, S2, S3>>}}

\* what argparse can return: --distance-threshold, --slop and --min-samples are
\* type=int, so any integer is accepted, zero and negatives included
ArgSpace ==
    [z_threshold : {1},
     distance_threshold : {0, 1, 2},
     slop : {0, 1},
     min_samples : {3, 4},
     ped : BOOLEAN]

\* the coverage-distribution files given to the pipeline
CliRocFiles ==
    {<<RocHeader>>,
     <<RocHeader, <<<<"c", "h", "r", "1">>, <<"0">>, <<"7">>, <<"8">>>>>>,
     <<RocHeader, <<<<"c", "h", "r", "1">>, <<"0">>, <<"7">>, <<"8">>>>,
       RocHeader, <<<<"c", "h", "r", "2">>, <<"1">>, <<"9">>, <<"8">>>>>>}

K_ped == <<"p", "e", "d">>

ParseStages == {"parse_bed", "parse_gff", "parse_roc", "parse_ped"}

\* a variant of cli that opens the output before the coverage-distribution
\* file is parsed
StageOrderOpenEarly ==
    <<"parse_bed", "parse_gff", "open", "parse_roc", "parse_ped",
      "compress_data", "get_template", "render_print", "log_done">>

\* the statements of cli after parse_args, in program order
StageOrder ==
    <<"parse_bed", "parse_gff", "parse_roc", "parse_ped", "open",
      "compress_data", "get_template", "render_print", "log_done">>

StageIndex(stage) == CHOOSE i \in DOMAIN StageOrder : StageOrder[i] = stage

\* the statement after `stage`; `if args.ped:` skips parse_ped
After(stage, a) ==
    LET i == StageIndex(stage)
        nxt == IF i = Len(StageOrder) THEN "exit" ELSE StageOrder[i + 1]
    IN IF nxt = "parse_ped" /\ ~a.ped
       THEN (IF i + 1 = Len(StageOrder) THEN "exit" ELSE StageOrder[i + 2])
       ELSE nxt

\* a variant of the parse_bed call with its last two arguments exchanged
BedCallSwapped(a) ==
    [z_threshold |-> a.z_threshold,
     distance_threshold |-> a.distance_threshold,
     slop |-> a.min_samples,
     min_samples |-> a.slop]

\* the thresholds as cli passes them to parse_bed
BedCall(a) ==
    [z_threshold |-> a.z_threshold,
     distance_threshold |-> a.distance_threshold,
     slop |-> a.slop,
     min_samples |-> a.min_samples]

InitCli ==
    /\ IdleRoc /\ IdlePack
    /\ pc = "parse_args"
    /\ args = None
    /\ called = <<>>
    /\ failedAt = "none"
    /\ outfile = "untouched"
    /\ bed = None
    /\ traces = None
    /\ samples = <<>>

\* `stage` is invoked and raises: the exception ends the run
Raises(stage) ==
    /\ called' = Append(called, stage)
    /\ failedAt' = stage
    /\ pc' = "exit"

\* `stage` is invoked and returns
Returns(stage) ==
    /\ called' = Append(called, stage)
    /\ failedAt' = failedAt
    /\ pc' = After(stage, args)

\* args = parse_args(): a namespace, or argparse's usage error
ParseArgs ==
    /\ pc = "parse_args"
    /\ \/ /\ args' \in ArgSpace
          /\ pc' = StageOrder[1]
          /\ called' = Append(called, "parse_args")
          /\ UNCHANGED failedAt
       \/ /\ Raises("parse_args")
          /\ UNCHANGED args
    /\ UNCHANGED <<outfile, bed, traces, samples>>
    /\ UNCHANGED rocVars /\ UNCHANGED packVars

\* traces, samples = parse_bed(args.bed, ..., args.min_samples)
ParseBed ==
    /\ pc = "parse_bed"
    /\ \/ \E table \in BedTables :
            LET c == BedCall(args)
                r == parse_bed(table, c.z_threshold, c.distance_threshold,
                               c.slop, c.min_samples)
            IN /\ bed' = table
               /\ traces' = r.traces
               /\ samples' = r.samples
               /\ Returns("parse_bed")
       \/ /\ Raises("parse_bed")
          /\ UNCHANGED <<bed, traces, samples>>
    /\ UNCHANGED <<args, outfile>>
    /\ UNCHANGED rocVars /\ UNCHANGED packVars

\* traces = parse_gff(args.gff, traces): one gene entry appended per chromosome
ParseGff ==
    /\ pc = "parse_gff"
    /\ \/ /\ traces' = [k \in DOMAIN traces |->
                           IF k = K_chromosomes THEN traces[k]
                           ELSE Append(traces[k], [name |-> "genes"])]
          /\ Returns("parse_gff")
       \/ /\ Raises("parse_gff")
          /\ UNCHANGED traces
    /\ UNCHANGED <<args, outfile, bed, samples>>
    /\ UNCHANGED rocVars /\ UNCHANGED packVars

\* traces = parse_roc(args.roc, traces, samples)
ParseRoc ==
    /\ pc = "parse_roc"
    /\ \E f \in CliRocFiles :
          LET r == parse_roc(f, traces, samples) IN
          /\ traces' = r.traces
          /\ IF r.raised = "none" THEN Returns("parse_roc") ELSE Raises("parse_roc")
    /\ UNCHANGED <<args, outfile, bed, samples>>
    /\ UNCHANGED rocVars /\ UNCHANGED packVars

\* traces = parse_ped(args.ped, traces, args.sample_col, args.sex_chroms)
ParsePed ==
    /\ pc = "parse_ped"
    /\ \/ /\ traces' = [k \in DOMAIN traces \cup {K_ped} |->
                           IF k = K_ped THEN samples ELSE traces[k]]
          /\ Returns("parse_ped")
       \/ /\ Raises("parse_ped")
          /\ UNCHANGED traces
    /\ UNCHANGED <<args, outfile, bed, samples>>
    /\ UNCHANGED rocVars /\ UNCHANGED packVars

\* with open(args.output, "w") as fh: creates or truncates the file
OpenOutput ==
    /\ pc = "open"
    /\ \/ /\ outfile' = "truncated"
          /\ Returns("open")
       \/ /\ Raises("open")
          /\ UNCHANGED outfile
    /\ UNCHANGED <<args, bed, traces, samples>>
    /\ UNCHANGED rocVars /\ UNCHANGED packVars

\* compress_data(traces) and env.get_template("covviz.html"), inside the with
PrepareReport ==
    /\ pc \in {"compress_data", "get_template"}
    /\ Returns(pc) \/ Raises(pc)
    /\ UNCHANGED <<args, outfile, bed, traces, samples>>
    /\ UNCHANGED rocVars /\ UNCHANGED packVars

\* print(html_template.render(data=compressed_json_data), file=fh)
RenderPrint ==
    /\ pc = "render_print"
    /\ \/ /\ outfile' = "written"
          /\ Returns("render_print")
       \/ /\ Raises("render_print")
          /\ UNCHANGED outfile
    /\ UNCHANGED <<args, bed, traces, samples>>
    /\ UNCHANGED rocVars /\ UNCHANGED packVars

\* logger.info("processing complete")
LogDone ==
    /\ pc = "log_done"
    /\ Returns("log_done")
    /\ UNCHANGED <<args, outfile, bed, traces, samples>>
    /\ UNCHANGED rocVars /\ UNCHANGED packVars

NextCli ==
    \/ ParseArgs \/ ParseBed \/ ParseGff \/ ParseRoc \/ ParsePed
    \/ OpenOutput \/ PrepareReport \/ RenderPrint \/ LogDone

Spec == InitCli /\ [][NextCli]_vars

----------------------------------------------------------------------------
(* Claims about cli, checked under Spec *)

Invoked(stage) == stage \in Range(called)
Completed(stage) == Invoked(stage) /\ failedAt # stage
ArgsParsed == Completed("parse_args")

\* the parsing stages this run has to go through
RequiredParseStages == IF args.ped THEN ParseStages ELSE ParseStages \ {"parse_ped"}

\* C1: a failure of parse_bed, parse_gff, parse_roc or parse_ped ends the run with
\* the output file untouched; the file is opened (created or truncated) only once
\* every parsing stage of the run has returned, and it has content only in a run
\* in which nothing raised.
C1_NoOutputBeforeParsingSucceeds ==
    /\ failedAt \in ParseStages => outfile = "untouched"
    /\ outfile # "untouched" => \A st \in RequiredParseStages : Completed(st)
    /\ Invoked("open") => \A st \in RequiredParseStages : Completed(st)
    /\ outfile = "written" => failedAt = "none"

\* C1 witness: parse_roc raised after parse_bed and parse_gff had returned
C1_Witness ==
    /\ failedAt = "parse_roc"
    /\ Completed("parse_bed") /\ Completed("parse_gff")
    /\ pc = "exit"
    /\ outfile = "untouched"

BinsOf(c) == bed.bins[c]

C8_NonPositiveConfigIsFatal ==
    (ArgsParsed /\ (args.distance_threshold <= 0 \/ args.slop <= 0)) =>
        ~Invoked("parse_bed")

----------------------------------------------------------------------------
(* Claims about parse_roc, checked under SpecRoc *)

RocReturned == roc_ret.raised = "none"
RocOut == roc_ret.traces[K_roc]
EstablishedChroms == DOMAIN roc_traces \ {K_chromosomes}

\* the lines after the first, and those of them that repeat the header
RocLines == Tail(roc_path)
IsRepeatedHeader(line) == line = Head(roc_path)
IsLineOf(line, c) == ~IsRepeatedHeader(line) /\ Strip(line[1], StripChars) = c
ColumnOf(name) == CHOOSE j \in DOMAIN Head(roc_path) : Head(roc_path)[j] = name

\* C4: after parse_roc returns, traces["roc"] has an entry for every established
\* chromosome (every incoming key but "chromosomes"), and that entry lists exactly
\* one line-trace per established sample, labelled with the sample, in the order
\* of the sample list; a chromosome without rows in the file is no exception.
C4_OneTracePerSamplePerChrom ==
    RocReturned =>
        /\ DOMAIN RocOut = EstablishedChroms
        /\ \A c \in EstablishedChroms :
            /\ Len(RocOut[c]) = Len(roc_samples)
            /\ \A i \in 1..Len(roc_samples) :
                /\ RocOut[c][i].text = roc_samples[i]
                /\ RocOut[c][i].mode = "lines"
            /\ \A smp \in Range(roc_samples) :
                Cardinality({i \in DOMAIN RocOut[c] : RocOut[c][i].text = smp}) = 1

\* C4 witness: a two-sample run where chromosome 1 has rows and chromosome 2 none
C4_Witness ==
    /\ RocReturned
    /\ roc_samples = <<S2, S1>>
    /\ Chr2 \in EstablishedChroms
    /\ Len(RocOut[Chr1][1].x) = 2
    /\ \A line \in Range(RocLines) : ~IsLineOf(line, Chr2)

\* C5: repeated header rows are skipped: the call on the file gives what the call
\* on the file without its repeated header rows gives, and no field of the header
\* is a point of any ROC trace.
C5_RepeatedHeadersSkipped ==
    roc_ret.raised \notin {"idle", "pending"} =>
        LET clean == <<Head(roc_path)>> \o
                         SelectSeq(RocLines, LAMBDA l : ~IsRepeatedHeader(l))
            ref == parse_roc(clean, roc_traces, roc_samples)
        IN /\ roc_ret.raised = ref.raised
           /\ RocReturned =>
                /\ RocOut = ref.traces[K_roc]
                /\ \A c \in DOMAIN RocOut : \A i \in DOMAIN RocOut[c] :
                    /\ Range(RocOut[c][i].x) \cap Range(Head(roc_path)) = {}
                    /\ Range(RocOut[c][i].y) \cap Range(Head(roc_path)) = {}

\* C5 witness: a header repeated between two data rows of chromosome 1
C5_Witness ==
    /\ RocReturned
    /\ Len(RocLines) = 3
    /\ IsLineOf(RocLines[1], Chr1)
    /\ IsRepeatedHeader(RocLines[2])
    /\ IsLineOf(RocLines[3], Chr1)
    /\ Len(RocOut[Chr1][1].x) = 2

\* C6 (as claimed): a sample column of the file that is not an established sample
\* makes parse_roc fail instead of being ignored.
C6_UnknownSampleIsError ==
    (/\ roc_ret.raised \notin {"idle", "pending"}
     /\ \E j \in 3..Len(Head(roc_path)) : Head(roc_path)[j] \notin Range(roc_samples))
        => roc_ret.raised # "none"

\* C9: parse_roc adds the "roc" entry and nothing else: every incoming key keeps
\* its value.
C9_OnlyRocAdded ==
    RocReturned =>
        /\ DOMAIN roc_ret.traces = DOMAIN roc_traces \cup {K_roc}
        /\ \A k \in DOMAIN roc_traces : roc_ret.traces[k] = roc_traces[k]

\* C9 witness: a call that returned ROC traces with points for chromosome 1
C9_Witness ==
    /\ RocReturned
    /\ K_roc \notin DOMAIN roc_traces
    /\ RocOut[Chr1][1].x # <<>>

\* C10 (as claimed): each ROC trace is point-wise aligned: x is the cov column of
\* the chromosome's data rows in file order and y[i] is the sample's value in the
\* row that gave x[i].
C10_PointwiseAligned ==
    RocReturned =>
        \A c \in EstablishedChroms : \A i \in DOMAIN RocOut[c] :
            LET lines == SelectSeq(RocLines, LAMBDA l : IsLineOf(l, c))
                t == RocOut[c][i]
            IN /\ Len(t.x) = Len(t.y)
               /\ t.x = [j \in 1..Len(lines) |-> lines[j][ColumnOf(K_cov)]]
               /\ t.y = [j \in 1..Len(lines) |-> lines[j][ColumnOf(t.text)]]

====
